---- MODULE Spec2Model ----
(***************************************************************************)
(* Verification model of the valhalla-db-mongodb data layer: the Mongoose  *)
(* schemas with their pre-save hooks and instance methods, the seed script *)
(* and the Express server skeleton.                                        *)
(*                                                                         *)
(* A document is modelled by its data fields.  Document.save() is modelled *)
(* as Mongoose 7 runs it: schema validation first (it is the first         *)
(* pre('save') hook Mongoose registers), then the schema's own pre('save') *)
(* hook, then the write to the collection.  An error raised by validation  *)
(* or by the hook rejects the save and nothing is written.                 *)
(*                                                                         *)
(* Optional values are sequences of length at most one: <<>> is an absent  *)
(* (undefined) field and <<v>> a field holding v.  Instants are minutes    *)
(* since an epoch.                                                         *)
(***************************************************************************)
EXTENDS Integers, Sequences, FiniteSets, TLC

VARIABLES
    now,          \* the wall clock read by new Date(), in minutes
    pqrs,         \* the PQRS document in memory
    pqrsDb,       \* the PQRS document as persisted (<<>> when never saved)
    pqrsResult,   \* outcome of the last PQRS operation
    pqrsCall,     \* the last PQRS operation: what was called, on what, when
    resv,         \* the Reservation document in memory
    resvDb,       \* the Reservation document as persisted (<<>> when never saved)
    resvResult,   \* outcome of the last Reservation operation
    resvCall,     \* the last Reservation operation
    pay,          \* the Payment document in memory
    payDb,        \* the Payment document as persisted (<<>> when never saved)
    payResult,    \* outcome of the last Payment operation
    payCall,      \* the last Payment operation
    payEverCompleted, \* paymentStatus of the document in memory was 'completed'
    role,         \* the Role document in memory
    roleDb,       \* the Role document as persisted (<<>> when never saved)
    roleResult,   \* outcome of the last Role operation
    roleCall,     \* the last Role operation
    user,         \* the User document in memory
    usersDb,      \* the users collection
    userJson,     \* what the last toJSON of the user in memory returned
    userCall,     \* the last User operation
    seedPc,       \* where the seed script stands
    env,          \* process.env.NODE_ENV (<<>> when not set)
    res,          \* the responses sent for the last request or error
    srvCall,      \* what the server last handled
    park,         \* the Parking document in memory
    parkDb,       \* the document in memory as persisted (<<>> when never saved)
    parkResult,   \* outcome of the last Parking operation
    parkCall,     \* the last Parking operation and the one before it
    parkStart,    \* the status the Parking document in memory was created with
    reservationsDb, \* the reservations collection, a document's _id its position
    collResult,   \* outcome of the last operation on the reservations collection
    collCall,     \* the last operation on the reservations collection
    colls,        \* the collections the seed script fills, by name
    seedStep,     \* where the run of fullSpanishSeed stands
    seedRuns,     \* how many runs of fullSpanishSeed have been started
    seedPrior     \* what the collections held when the last run started

srvVars == <<env, res, srvCall>>
roleVars == <<role, roleDb, roleResult, roleCall>>
userVars == <<user, usersDb, userJson, userCall, seedPc>>
payVars == <<pay, payDb, payResult, payCall, payEverCompleted>>
resvVars == <<resv, resvDb, resvResult, resvCall>>
pqrsVars == <<pqrs, pqrsDb, pqrsResult, pqrsCall>>
parkVars == <<park, parkDb, parkResult, parkCall, parkStart>>
collVars == <<reservationsDb, collResult, collCall>>
seedVars == <<colls, seedStep, seedRuns, seedPrior>>

None == <<>>
Some(v) == <<v>>
IsSet(x) == x # <<>>
Val(x) == x[1]

MinutesPerHour == 60

NoCall == [op |-> "none"]

-----------------------------------------------------------------------------
(* The clock                                                               *)

\* Instants the clock of a PQRS run can show (minutes).
PQRSTimes == {0, 90, 1500, 45000}

Tick(points) ==
    \E t \in points : t > now /\ now' = t

-----------------------------------------------------------------------------
(* PQRS                                                                    *)

Priorities == {"low", "medium", "high", "urgent", "critical"}

PQRSStatuses ==
    {"received", "in_review", "in_progress", "pending_info", "resolved",
     "closed", "rejected"}

Departments ==
    {"administration", "maintenance", "security", "cleaning", "legal", "finance"}

\* What a caller may pass as priority: the enum values and a value outside it.
PriorityInputs == Priorities \cup {"bogus"}

\* The sla dates a caller may supply (minutes): none, all three (as the seed
\* script does: +1, +3 and +7 days), or only the first.
SlaInputs ==
    { <<None, None, None>>,
      <<Some(1440), Some(4320), Some(10080)>>,
      <<Some(1440), None, None>> }

slaHours(priority) ==
    CASE priority = "critical" -> [acknowledge |-> 1,  respond |-> 4,   resolve |-> 24]
      [] priority = "urgent"   -> [acknowledge |-> 2,  respond |-> 8,   resolve |-> 72]
      [] priority = "high"     -> [acknowledge |-> 4,  respond |-> 24,  resolve |-> 168]
      [] priority = "medium"   -> [acknowledge |-> 8,  respond |-> 48,  resolve |-> 336]
      [] priority = "low"      -> [acknowledge |-> 24, respond |-> 120, resolve |-> 720]

\* new PQRS(data): schema defaults applied to the fields the caller left out.
NewPQRS(priority, ackBy, respBy, resBy) ==
    [ isNew         |-> TRUE,
      priority      |-> priority,
      currentStatus |-> "received",
      tracking      |-> <<>>,
      answer        |-> None,
      assignedTo    |-> None,
      communications |-> <<>>,
      resolvedBy    |-> None,
      resolvedAt    |-> None,
      sla |-> [ acknowledgeBy         |-> ackBy,
                respondBy             |-> respBy,
                resolveBy             |-> resBy,
                acknowledgedAt        |-> None,
                respondedAt           |-> None,
                isAcknowledgeBreached |-> FALSE,
                isResponseBreached    |-> FALSE,
                isResolutionBreached  |-> FALSE ] ]

\* Schema validation of the fields modelled: the enums of priority,
\* currentStatus, tracking.status and assignedTo.department, and the three
\* required sla dates.  The other required fields (category, title,
\* description, createdBy, tracking.userId, communications.type and
\* direction) are taken to be supplied and valid.
PQRSValidate(doc) ==
    /\ doc.priority \in Priorities
    /\ doc.currentStatus \in PQRSStatuses
    /\ \A i \in DOMAIN doc.tracking : doc.tracking[i].status \in PQRSStatuses
    /\ IsSet(doc.assignedTo) => Val(doc.assignedTo).department \in Departments
    /\ IsSet(doc.sla.acknowledgeBy)
    /\ IsSet(doc.sla.respondBy)
    /\ IsSet(doc.sla.resolveBy)

\* JavaScript's now > date: false when the date is undefined.
After(t, date) == IsSet(date) /\ t > Val(date)

\* pqrsSchema.pre('save'), first half: the SLA dates of a new document.
PQRSSetSlaDates(doc, t) ==
    IF doc.isNew
    THEN LET sla == slaHours(doc.priority)
         IN [doc EXCEPT
               !.sla.acknowledgeBy = Some(t + sla.acknowledge * MinutesPerHour),
               !.sla.respondBy     = Some(t + sla.respond * MinutesPerHour),
               !.sla.resolveBy     = Some(t + sla.resolve * MinutesPerHour)]
    ELSE doc

\* pqrsSchema.pre('save'), second half: the breach flags.
PQRSCheckBreaches(doc, t) ==
    [doc EXCEPT
       !.sla.isAcknowledgeBreached =
           IF ~IsSet(doc.sla.acknowledgedAt) /\ After(t, doc.sla.acknowledgeBy)
           THEN TRUE ELSE @,
       !.sla.isResponseBreached =
           IF ~IsSet(doc.sla.respondedAt) /\ After(t, doc.sla.respondBy)
           THEN TRUE ELSE @,
       !.sla.isResolutionBreached =
           IF ~IsSet(doc.resolvedAt) /\ After(t, doc.sla.resolveBy)
           THEN TRUE ELSE @]

PQRSPreSave(doc, t) == PQRSCheckBreaches(PQRSSetSlaDates(doc, t), t)

\* Document.save() of doc: validation, the hook, the write.
PQRSWrite(doc) ==
    IF PQRSValidate(doc)
    THEN LET saved == [PQRSPreSave(doc, now) EXCEPT !.isNew = FALSE]
         IN /\ pqrs' = saved
            /\ pqrsDb' = Some(saved)
            /\ pqrsResult' = "ok"
    ELSE /\ pqrs' = doc
         /\ pqrsDb' = pqrsDb
         /\ pqrsResult' = "ValidationError"

\* Document.save() on the PQRS in memory, called by operation op.
PQRSDoSave(doc, op) ==
    /\ pqrsCall' = [op |-> op, wasNew |-> doc.isNew, at |-> now, before |-> doc]
    /\ PQRSWrite(doc)

PQRSCreate ==
    \E p \in PriorityInputs, s \in SlaInputs :
        /\ pqrs' = NewPQRS(p, s[1], s[2], s[3])
        /\ pqrsCall' = [op |-> "create"]
        /\ pqrsResult' = "none"
        /\ UNCHANGED <<pqrsDb, now>>

PQRSSave ==
    /\ PQRSDoSave(pqrs, "save")
    /\ UNCHANGED now

\* A caller assigns another priority to the document in memory.
PQRSSetPriority ==
    \E p \in Priorities :
        /\ p # pqrs.priority
        /\ pqrs' = [pqrs EXCEPT !.priority = p]
        /\ pqrsCall' = [op |-> "setPriority"]
        /\ pqrsResult' = "none"
        /\ UNCHANGED <<pqrsDb, now>>

PQRSTick == Tick(PQRSTimes) /\ UNCHANGED pqrsVars

PQRSOthers == UNCHANGED <<resvVars, payVars, roleVars, userVars, srvVars, parkVars, collVars, seedVars>>

PQRSInit ==
    /\ pqrs = NewPQRS("medium", None, None, None)
    /\ pqrsDb = None
    /\ pqrsResult = "none"
    /\ pqrsCall = NoCall

PQRSNext ==
    \/ PQRSCreate /\ PQRSOthers
    \/ PQRSSave /\ PQRSOthers
    \/ PQRSSetPriority /\ PQRSOthers
    \/ PQRSTick /\ PQRSOthers

\* C1: every new PQRS saved with a valid priority, also one created without
\* sla dates, is saved successfully with acknowledgeBy, respondBy and
\* resolveBy equal to the save time plus the hours of its priority, in
\* increasing order; a save of a stored PQRS leaves the three dates alone.
C1_NewPQRSGetsSlaDeadlines ==
    /\ ( /\ pqrsCall.op = "save"
         /\ pqrsCall.wasNew
         /\ pqrsCall.before.priority \in Priorities )
       => /\ pqrsResult = "ok"
          /\ IsSet(pqrsDb)
          /\ LET h == slaHours(pqrsCall.before.priority)
                 d == Val(pqrsDb).sla
             IN /\ d.acknowledgeBy = Some(pqrsCall.at + h.acknowledge * MinutesPerHour)
                /\ d.respondBy = Some(pqrsCall.at + h.respond * MinutesPerHour)
                /\ d.resolveBy = Some(pqrsCall.at + h.resolve * MinutesPerHour)
                /\ Val(d.acknowledgeBy) < Val(d.respondBy)
                /\ Val(d.respondBy) < Val(d.resolveBy)
    /\ ( /\ pqrsCall.op = "save"
         /\ ~pqrsCall.wasNew
         /\ pqrsResult = "ok" )
       => LET b == pqrsCall.before.sla
              d == Val(pqrsDb).sla
          IN /\ d.acknowledgeBy = b.acknowledgeBy
             /\ d.respondBy = b.respondBy
             /\ d.resolveBy = b.resolveBy

-----------------------------------------------------------------------------
(* PQRS: the instance methods                                              *)
(* A tracking entry is modelled by its status and userId.  resolvedAt and  *)
(* resolvedBy are the fields of the resolution sub-document.               *)

MaxTracking == 2
MaxCommunications == 1

\* Instants the clock shows while the methods are called (minutes).
TrackingTimes == {0, 1500}

\* What callers may pass: the tracking data (a review, work in progress, a
\* resolution with and without userInfo, a status outside the enum), an
\* answer, a department, a communication, and the resolution data of close.
TrackingInputs ==
    { [status |-> "in_review",   userId |-> 7, userInfo |-> Some("Carlos")],
      [status |-> "in_progress", userId |-> 7, userInfo |-> Some("Carlos")],
      [status |-> "resolved",    userId |-> 7, userInfo |-> Some("Carlos")],
      [status |-> "resolved",    userId |-> 7, userInfo |-> None],
      [status |-> "bogus",       userId |-> 7, userInfo |-> Some("Carlos")] }
AnswerInputs == { [content |-> "Se programa la visita"] }
AssignInputs == { [department |-> "maintenance"] }
CommunicationInputs == { [type |-> "email", direction |-> "outbound"] }
ResolutionInputs ==
    { [resolvedBy |-> None, resolvedAt |-> None],
      [resolvedBy |-> Some([userId |-> 9]), resolvedAt |-> Some(5)] }

\* The truth value of this.answer.  answer is a nested path, for which a
\* Mongoose document returns an object whether or not an answer was set.
AnswerIsTruthy(doc) == TRUE

\* A faulty variant of addTracking: currentStatus is left as it was.
PQRSAddTrackingKeepingStatus(doc, data, t) ==
    [doc EXCEPT !.tracking = Append(@, [status |-> data.status, userId |-> data.userId])]

\* addTracking up to its save: the document as the method leaves it, also
\* when it throws on the way.
PQRSAddTrackingDoc(doc, data, t) ==
    LET pushed == [doc EXCEPT
                     !.tracking = Append(@, [status |-> data.status,
                                             userId |-> data.userId]),
                     !.currentStatus = data.status]
        acknowledged ==
            IF data.status = "in_review" /\ ~IsSet(pushed.sla.acknowledgedAt)
            THEN [pushed EXCEPT !.sla.acknowledgedAt = Some(t)]
            ELSE pushed
        responded ==
            IF AnswerIsTruthy(acknowledged) /\ ~IsSet(acknowledged.sla.respondedAt)
            THEN [acknowledged EXCEPT !.sla.respondedAt = Some(t)]
            ELSE acknowledged
    IN IF data.status = "resolved" /\ ~IsSet(responded.resolvedAt)
       THEN [responded EXCEPT
               !.resolvedAt = Some(t),
               !.resolvedBy = IF IsSet(data.userInfo)
                              THEN Some([userId |-> data.userId]) ELSE @]
       ELSE responded

\* addTracking reads trackingData.userInfo.fullName when it records who
\* resolved: a TypeError when userInfo is absent.
PQRSAddTrackingThrows(doc, data) ==
    /\ data.status = "resolved"
    /\ ~IsSet(doc.resolvedAt)
    /\ ~IsSet(data.userInfo)

\* pqrsSchema.methods.addTracking
PQRSAddTracking ==
    \E data \in TrackingInputs :
        LET doc == PQRSAddTrackingDoc(pqrs, data, now)
        IN /\ Len(pqrs.tracking) < MaxTracking
           /\ pqrsCall' = [op |-> "addTracking", wasNew |-> pqrs.isNew, at |-> now,
                           before |-> pqrs, data |-> data]
           /\ IF PQRSAddTrackingThrows(pqrs, data)
              THEN /\ pqrs' = doc
                   /\ pqrsDb' = pqrsDb
                   /\ pqrsResult' = "TypeError"
              ELSE PQRSWrite(doc)
           /\ UNCHANGED now

\* pqrsSchema.methods.addAnswer
PQRSAddAnswer ==
    \E data \in AnswerInputs :
        /\ pqrsCall' = [op |-> "addAnswer", wasNew |-> pqrs.isNew, at |-> now,
                        before |-> pqrs, data |-> data]
        /\ PQRSWrite([pqrs EXCEPT
                        !.answer = Some(data),
                        !.sla.respondedAt = IF IsSet(@) THEN @ ELSE Some(now)])
        /\ UNCHANGED now

\* pqrsSchema.methods.assignTo
PQRSAssignTo ==
    \E data \in AssignInputs :
        /\ pqrsCall' = [op |-> "assignTo", wasNew |-> pqrs.isNew, at |-> now,
                        before |-> pqrs, data |-> data]
        /\ PQRSWrite([pqrs EXCEPT
                        !.assignedTo = Some([department |-> data.department,
                                             assignedAt |-> now])])
        /\ UNCHANGED now

\* pqrsSchema.methods.addCommunication
PQRSAddCommunication ==
    \E data \in CommunicationInputs :
        /\ Len(pqrs.communications) < MaxCommunications
        /\ pqrsCall' = [op |-> "addCommunication", wasNew |-> pqrs.isNew, at |-> now,
                        before |-> pqrs, data |-> data]
        /\ PQRSWrite([pqrs EXCEPT !.communications = Append(@, data)])
        /\ UNCHANGED now

\* A faulty variant of close: the resolvedAt of resolutionData wins over
\* the one the document has.
PQRSCloseDocTakingResolvedAt(doc, data, t) ==
    [doc EXCEPT
       !.currentStatus = "closed",
       !.resolvedBy = IF IsSet(data.resolvedBy) THEN data.resolvedBy ELSE @,
       !.resolvedAt = IF IsSet(data.resolvedAt) THEN data.resolvedAt
                      ELSE IF IsSet(@) THEN @ ELSE Some(t),
       !.tracking = Append(@, [status |-> "closed",
                               userId |-> IF IsSet(data.resolvedBy)
                                          THEN Val(data.resolvedBy).userId ELSE 0])]

\* close up to its save: resolution is rebuilt from the one the document
\* has, then resolutionData, then resolvedAt; (x || 0) of a userId keeps a
\* non-zero number.
PQRSCloseDoc(doc, data, t) ==
    [doc EXCEPT
       !.currentStatus = "closed",
       !.resolvedBy = IF IsSet(data.resolvedBy) THEN data.resolvedBy ELSE @,
       !.resolvedAt = IF IsSet(@) THEN @ ELSE Some(t),
       !.tracking = Append(@, [status |-> "closed",
                               userId |-> IF IsSet(data.resolvedBy)
                                          THEN Val(data.resolvedBy).userId ELSE 0])]

\* pqrsSchema.methods.close
PQRSClose ==
    \E data \in ResolutionInputs :
        /\ Len(pqrs.tracking) < MaxTracking
        /\ pqrsCall' = [op |-> "close", wasNew |-> pqrs.isNew, at |-> now,
                        before |-> pqrs, data |-> data]
        /\ PQRSWrite(PQRSCloseDoc(pqrs, data, now))
        /\ UNCHANGED now

TrackingTick == Tick(TrackingTimes) /\ UNCHANGED pqrsVars

\* A PQRS constructed with its sla dates, as the seed script constructs
\* them, and not yet saved.
TrackingInit ==
    /\ pqrs = NewPQRS("critical", Some(1440), Some(4320), Some(10080))
    /\ pqrsDb = None
    /\ pqrsResult = "none"
    /\ pqrsCall = NoCall

TrackingNext ==
    \/ PQRSAddTracking /\ PQRSOthers
    \/ PQRSAddAnswer /\ PQRSOthers
    \/ PQRSAssignTo /\ PQRSOthers
    \/ PQRSAddCommunication /\ PQRSOthers
    \/ PQRSClose /\ PQRSOthers
    \/ PQRSSave /\ PQRSOthers
    \/ TrackingTick /\ PQRSOthers

TrackingOps == {"addTracking", "addAnswer", "assignTo", "addCommunication", "close"}

\* The status of the last tracking entry of doc.
LastTrackingStatus(doc) == doc.tracking[Len(doc.tracking)].status

DeadlineMissed(deadline, event, t) ==
    /\ IsSet(deadline)
    /\ IF IsSet(event) THEN Val(event) > Val(deadline) ELSE t > Val(deadline)

\* C17: after every successful save, by save() or by one of the methods,
\* each breach flag of the stored document is true when its deadline had
\* passed before its event, also when the event took place after the
\* deadline in the call that saved it; a flag that was true stays true.
C17_BreachRecordedOnSave ==
    (pqrsCall.op \in TrackingOps \cup {"save"} /\ pqrsResult = "ok")
    => LET d == Val(pqrsDb)
           b == pqrsCall.before
       IN /\ DeadlineMissed(d.sla.acknowledgeBy, d.sla.acknowledgedAt, pqrsCall.at)
             => d.sla.isAcknowledgeBreached
          /\ DeadlineMissed(d.sla.respondBy, d.sla.respondedAt, pqrsCall.at)
             => d.sla.isResponseBreached
          /\ DeadlineMissed(d.sla.resolveBy, d.resolvedAt, pqrsCall.at)
             => d.sla.isResolutionBreached
          /\ b.sla.isAcknowledgeBreached => d.sla.isAcknowledgeBreached
          /\ b.sla.isResponseBreached => d.sla.isResponseBreached
          /\ b.sla.isResolutionBreached => d.sla.isResolutionBreached

\* C18: a call of addTracking, addAnswer, assignTo, addCommunication or
\* close leaves acknowledgedAt, respondedAt and resolvedAt as they were
\* when they had a value, also a close whose resolutionData has a
\* resolvedAt of its own; acknowledgedAt gets its first value only from an
\* addTracking with status 'in_review', resolvedAt only from an addTracking
\* with status 'resolved' or from close.
C18_TimestampsWriteOnce ==
    pqrsCall.op \in TrackingOps
    => LET b == pqrsCall.before
       IN /\ IsSet(b.sla.acknowledgedAt)
             => pqrs.sla.acknowledgedAt = b.sla.acknowledgedAt
          /\ IsSet(b.sla.respondedAt)
             => pqrs.sla.respondedAt = b.sla.respondedAt
          /\ IsSet(b.resolvedAt) => pqrs.resolvedAt = b.resolvedAt
          /\ (~IsSet(b.sla.acknowledgedAt) /\ IsSet(pqrs.sla.acknowledgedAt))
             => /\ pqrsCall.op = "addTracking"
                /\ pqrsCall.data.status = "in_review"
          /\ (~IsSet(b.resolvedAt) /\ IsSet(pqrs.resolvedAt))
             => \/ pqrsCall.op = "addTracking" /\ pqrsCall.data.status = "resolved"
                \/ pqrsCall.op = "close"
          /\ (IsSet(pqrsDb) /\ pqrsResult = "ok")
             => /\ Val(pqrsDb).sla.acknowledgedAt = pqrs.sla.acknowledgedAt
                /\ Val(pqrsDb).sla.respondedAt = pqrs.sla.respondedAt
                /\ Val(pqrsDb).resolvedAt = pqrs.resolvedAt

\* A close whose resolutionData has a resolvedAt, on a PQRS resolved at
\* another time: the close is saved and the earlier resolvedAt is kept.
C18_Witness ==
    /\ pqrsCall.op = "close"
    /\ pqrsResult = "ok"
    /\ IsSet(pqrsCall.data.resolvedAt)
    /\ IsSet(pqrsCall.before.resolvedAt)
    /\ pqrsCall.before.resolvedAt # pqrsCall.data.resolvedAt
    /\ pqrs.resolvedAt = pqrsCall.before.resolvedAt
    /\ Val(pqrsDb).resolvedAt = pqrsCall.before.resolvedAt

-----------------------------------------------------------------------------
(* Reservation                                                             *)
(* duration is a number of hours in the code, (endTime - startTime) /     *)
(* 3600000; the model keeps it in sixtieths of an hour, so that it is the *)
(* number of minutes between the two instants.                            *)

DurationMin == 30
DurationMax == 1440

ReservationStatuses ==
    {"pending", "confirmed", "cancelled", "completed", "no_show", "in_progress"}

\* The start and end instants a caller may supply: no start, an empty
\* interval, 10 minutes, 30 minutes, 24 hours, 25 hours.
TimeInputs ==
    { <<None, Some(630)>>, <<Some(600), Some(600)>>, <<Some(600), Some(610)>>,
      <<Some(600), Some(630)>>, <<Some(600), Some(2040)>>,
      <<Some(600), Some(2100)>> }
EndInputs == {Some(610), Some(2100)}
DurationInputs == {None, Some(120), Some(2000)}
TotalInputs == {None, Some(99)}

Cost(base, equipment, service, cleaning, deposit, total) ==
    [ baseFee |-> base, equipmentFee |-> equipment, serviceFee |-> service,
      cleaningFee |-> cleaning, securityDeposit |-> deposit, total |-> total ]

\* The cost sub-documents a caller may supply: a wrong total, no total, no
\* base fee, a null equipment fee with the right total.
CostInputs ==
    { Cost(Some(50000), Some(10000), Some(5000), Some(20000), Some(100000), Some(99)),
      Cost(Some(50000), Some(0), Some(0), Some(0), Some(0), None),
      Cost(None, Some(0), Some(0), Some(0), Some(0), Some(0)),
      Cost(Some(50000), None, Some(5000), Some(0), Some(100000), Some(55000)) }

\* new Reservation(data).  modified holds the paths Mongoose would validate
\* on the next save beyond those of a new document.
NewReservation(start, end, duration, cost) ==
    [ isNew     |-> TRUE,
      modified  |-> {},
      status    |-> "pending",
      startTime |-> start,
      endTime   |-> end,
      duration  |-> duration,
      cost      |-> cost ]

Checked(doc, path) == doc.isNew \/ path \in doc.modified

NonNegative(x) == IsSet(x) => Val(x) >= 0

\* Schema validation of the paths modelled; a stored document has only its
\* modified paths validated.  min and max are skipped for an absent value.
ReservationValidate(doc) ==
    /\ Checked(doc, "status") => doc.status \in ReservationStatuses
    /\ Checked(doc, "startTime") => IsSet(doc.startTime)
    /\ Checked(doc, "endTime") =>
          /\ IsSet(doc.endTime)
          /\ IsSet(doc.startTime)
          /\ Val(doc.endTime) > Val(doc.startTime)
    /\ (Checked(doc, "duration") /\ IsSet(doc.duration)) =>
          /\ Val(doc.duration) >= DurationMin
          /\ Val(doc.duration) <= DurationMax
    /\ Checked(doc, "cost.baseFee") =>
          IsSet(doc.cost.baseFee) /\ Val(doc.cost.baseFee) >= 0
    /\ Checked(doc, "cost.equipmentFee") => NonNegative(doc.cost.equipmentFee)
    /\ Checked(doc, "cost.serviceFee") => NonNegative(doc.cost.serviceFee)
    /\ Checked(doc, "cost.cleaningFee") => NonNegative(doc.cost.cleaningFee)
    /\ Checked(doc, "cost.securityDeposit") => NonNegative(doc.cost.securityDeposit)
    /\ Checked(doc, "cost.total") =>
          IsSet(doc.cost.total) /\ Val(doc.cost.total) >= 0

\* JavaScript's (x || 0) on a number field.
OrZero(x) == IF IsSet(x) THEN Val(x) ELSE 0

\* reservationSchema.pre('save'): the duration.
ReservationDuration(doc) ==
    IF IsSet(doc.startTime) /\ IsSet(doc.endTime)
    THEN Some(Val(doc.endTime) - Val(doc.startTime))
    ELSE doc.duration

\* A faulty variant of ReservationTotal: the security deposit is added as well.
ReservationTotalWithDeposit(cost) ==
    OrZero(cost.baseFee) + OrZero(cost.equipmentFee) + OrZero(cost.serviceFee)
        + OrZero(cost.cleaningFee) + OrZero(cost.securityDeposit)

\* reservationSchema.pre('save'): the total cost.
ReservationTotal(cost) ==
    OrZero(cost.baseFee) + OrZero(cost.equipmentFee) + OrZero(cost.serviceFee)
        + OrZero(cost.cleaningFee)

ReservationPreSave(doc) ==
    [doc EXCEPT !.duration = ReservationDuration(doc),
                !.cost.total = Some(ReservationTotal(doc.cost))]

\* Document.save() on the reservation in memory, called by operation op.
ReservationDoSave(doc, op) ==
    /\ resvCall' = [op |-> op, wasNew |-> doc.isNew, before |-> doc]
    /\ IF ReservationValidate(doc)
       THEN LET saved == [ReservationPreSave(doc) EXCEPT
                             !.isNew = FALSE, !.modified = {}]
            IN /\ resv' = saved
               /\ resvDb' = Some(saved)
               /\ resvResult' = "ok"
       ELSE /\ resv' = doc
            /\ resvDb' = resvDb
            /\ resvResult' = "ValidationError"

ReservationCreate ==
    \E t \in TimeInputs, d \in DurationInputs, c \in CostInputs :
        /\ resv' = NewReservation(t[1], t[2], d, c)
        /\ resvCall' = [op |-> "create"]
        /\ resvResult' = "none"
        /\ UNCHANGED resvDb

ReservationSave == ReservationDoSave(resv, "save")

\* A caller moves the end of the reservation in memory.
ReservationSetEndTime ==
    \E e \in EndInputs :
        /\ e # resv.endTime
        /\ resv' = [resv EXCEPT !.endTime = e, !.modified = @ \cup {"endTime"}]
        /\ resvCall' = [op |-> "setEndTime"]
        /\ resvResult' = "none"
        /\ UNCHANGED resvDb

\* A caller overwrites cost.total of the reservation in memory.
ReservationSetTotal ==
    \E t \in TotalInputs :
        /\ t # resv.cost.total
        /\ resv' = [resv EXCEPT !.cost.total = t, !.modified = @ \cup {"cost.total"}]
        /\ resvCall' = [op |-> "setTotal"]
        /\ resvResult' = "none"
        /\ UNCHANGED resvDb

\* reservationSchema.methods.approve
ReservationApprove ==
    ReservationDoSave(
        [resv EXCEPT !.status = "confirmed",
                     !.modified = IF resv.status = "confirmed"
                                  THEN @ ELSE @ \cup {"status"}],
        "approve")

ReservationInit ==
    /\ resv = NewReservation(None, None, None,
                 Cost(None, Some(0), Some(0), Some(0), Some(0), None))
    /\ resvDb = None
    /\ resvResult = "none"
    /\ resvCall = NoCall

ReservationOthers ==
    UNCHANGED <<now, pqrsVars, payVars, roleVars, userVars, srvVars, parkVars, collVars, seedVars>>

ReservationNext ==
    \/ ReservationCreate /\ ReservationOthers
    \/ ReservationSave /\ ReservationOthers
    \/ ReservationSetEndTime /\ ReservationOthers
    \/ ReservationSetTotal /\ ReservationOthers
    \/ ReservationApprove /\ ReservationOthers

\* C2: after every successful save of a Reservation, cost.total is baseFee +
\* equipmentFee + serviceFee + cleaningFee, absent fees counting 0 and the
\* security deposit left out, whatever total was supplied or stored before.
C2_TotalIsSumOfFees ==
    /\ IsSet(resvDb) =>
          LET c == Val(resvDb).cost
          IN c.total = Some(OrZero(c.baseFee) + OrZero(c.equipmentFee)
                              + OrZero(c.serviceFee) + OrZero(c.cleaningFee))
    /\ (resvCall.op \in {"save", "approve"} /\ resvResult = "ok") =>
          LET b == resvCall.before.cost
          IN resv.cost.total = Some(OrZero(b.baseFee) + OrZero(b.equipmentFee)
                                      + OrZero(b.serviceFee) + OrZero(b.cleaningFee))

\* A save succeeded on a reservation with a security deposit and a null
\* equipment fee whose supplied total was not the sum of its fees.
C2_Witness ==
    /\ resvCall.op = "save"
    /\ resvResult = "ok"
    /\ resvCall.before.cost.total = Some(99)
    /\ resv.cost.total # Some(99)
    /\ ~IsSet(resv.cost.equipmentFee)
    /\ Val(resv.cost.securityDeposit) > 0

\* C3: every stored Reservation has duration = endTime - startTime, between
\* 0.5 and 24 hours inclusive, and the save of a reservation shorter than 30
\* minutes or longer than 24 hours is rejected.
C3_StoredDurationWithinBounds ==
    /\ IsSet(resvDb) =>
          LET d == Val(resvDb)
          IN /\ d.duration = Some(Val(d.endTime) - Val(d.startTime))
             /\ Val(d.duration) >= DurationMin
             /\ Val(d.duration) <= DurationMax
    /\ ( /\ resvCall.op \in {"save", "approve"}
         /\ IsSet(resvCall.before.startTime)
         /\ IsSet(resvCall.before.endTime)
         /\ LET len == Val(resvCall.before.endTime) - Val(resvCall.before.startTime)
            IN len < DurationMin \/ len > DurationMax )
       => resvResult # "ok"

-----------------------------------------------------------------------------
(* Payment                                                                 *)
(* Amounts are in hundredths of the currency unit, so the hook's tolerance *)
(* of 0.01 is 1.                                                           *)

Tolerance == 1
MaxItems == 2

MismatchError == "Total amount must match sum of items"

PaymentStatuses == {"pending", "completed", "failed", "cancelled", "refunded"}

\* Instants the clock of a Payment run can show: the epoch and two days later.
PaymentTimes == {0, 48 * MinutesPerHour}

\* What a caller may supply.
TotalAmountInputs == {None, Some(-5), Some(98), Some(100), Some(101)}
ItemsInputs == {<<>>, <<100>>}
ItemAmountInputs == {3, -5}
StatusInputs == {"pending", "completed"}

\* What Math.random().toString(36) may return, a character per element:
\* for 0, for 0.5, and for a number with a long expansion.
RandomStrings ==
    { <<"0">>,
      <<"0", ".", "i">>,
      <<"0", ".", "4", "f", "0", "y", "o", "8", "2", "m", "v">> }

\* The calendar date of the epoch of a Payment run.
Epoch == [year |-> 2024, month |-> 12, day |-> 30]

IsLeap(y) == (y % 4 = 0 /\ y % 100 # 0) \/ y % 400 = 0

DaysInMonth(y, m) ==
    IF m = 2 THEN (IF IsLeap(y) THEN 29 ELSE 28)
    ELSE IF m \in {4, 6, 9, 11} THEN 30 ELSE 31

NextDay(d) ==
    IF d.day < DaysInMonth(d.year, d.month) THEN [d EXCEPT !.day = @ + 1]
    ELSE IF d.month < 12 THEN [d EXCEPT !.month = @ + 1, !.day = 1]
    ELSE [year |-> d.year + 1, month |-> 1, day |-> 1]

RECURSIVE AddDays(_, _)
AddDays(d, n) == IF n = 0 THEN d ELSE AddDays(NextDay(d), n - 1)

\* new Date() at instant t, as a UTC calendar date.
DateAt(t) == AddDays(Epoch, t \div (24 * MinutesPerHour))

DigitChars == <<"0", "1", "2", "3", "4", "5", "6", "7", "8", "9">>

RECURSIVE Power10(_)
Power10(n) == IF n = 0 THEN 1 ELSE 10 * Power10(n - 1)

\* n in decimal, zero-padded to w digits.
Padded(n, w) == [i \in 1..w |-> DigitChars[((n \div Power10(w - i)) % 10) + 1]]

\* date.toISOString().slice(0, 10) for a year of four digits.
IsoDate(d) ==
    Padded(d.year, 4) \o <<"-">> \o Padded(d.month, 2) \o <<"-">> \o Padded(d.day, 2)

\* str.replace(/-/g, '')
WithoutDashes(str) == SelectSeq(str, LAMBDA c : c # "-")

\* str.substr(start, length), start counted from 0.
Substr(str, start, length) ==
    IF start >= Len(str) THEN <<>>
    ELSE SubSeq(str, start + 1,
                IF start + length < Len(str) THEN start + length ELSE Len(str))

UpperOf(c) ==
    CASE c = "i" -> "I" [] c = "k" -> "K" [] c = "z" -> "Z" [] c = "p" -> "P"
      [] c = "q" -> "Q" [] c = "f" -> "F" [] c = "y" -> "Y" [] c = "o" -> "O"
      [] c = "m" -> "M" [] c = "v" -> "V" [] OTHER -> c

\* str.toUpperCase()
ToUpperCase(str) == [i \in 1..Len(str) |-> UpperOf(str[i])]

\* `REC-${date}-${random}` of paymentSchema.pre('save')
ReceiptNumber(t, random) ==
    <<"R", "E", "C", "-">> \o WithoutDashes(IsoDate(DateAt(t))) \o <<"-">>
        \o ToUpperCase(Substr(random, 2, 6))

RECURSIVE SumSeq(_)
SumSeq(amounts) ==
    IF amounts = <<>> THEN 0 ELSE amounts[1] + SumSeq(Tail(amounts))

\* paymentSchema.virtual('totalItemsAmount')
totalItemsAmount(doc) == SumSeq(doc.items)

Abs(x) == IF x < 0 THEN -x ELSE x

\* new Payment(data) at instant t; paymentDate defaults to Date.now.
NewPayment(total, status, items, t) ==
    [ isNew         |-> TRUE,
      totalAmount   |-> total,
      paymentStatus |-> status,
      items         |-> items,
      paymentDate   |-> t,
      receiptNumber |-> None ]

\* Schema validation of the paths modelled; owner, paymentMethod and the
\* items' description and category are taken to be supplied and valid.
PaymentValidate(doc) ==
    /\ IsSet(doc.totalAmount)
    /\ Val(doc.totalAmount) >= 0
    /\ doc.paymentStatus \in PaymentStatuses
    /\ \A i \in 1..Len(doc.items) : doc.items[i] >= 0

\* paymentSchema.pre('save'), first half: the receipt number.
PaymentReceipt(doc, t, random) ==
    IF doc.paymentStatus = "completed" /\ ~IsSet(doc.receiptNumber)
    THEN [doc EXCEPT !.receiptNumber = Some(ReceiptNumber(t, random))]
    ELSE doc

\* A faulty variant of PaymentTotalMismatch: the difference is not taken absolute.
PaymentTotalMismatchSigned(doc) ==
    /\ Len(doc.items) > 0
    /\ IsSet(doc.totalAmount)
    /\ Val(doc.totalAmount) - totalItemsAmount(doc) > Tolerance

\* paymentSchema.pre('save'), second half: TRUE when the hook passes the
\* error to next().  An undefined totalAmount makes the difference NaN, which
\* is not greater than 0.01.
PaymentTotalMismatch(doc) ==
    /\ Len(doc.items) > 0
    /\ IsSet(doc.totalAmount)
    /\ Abs(Val(doc.totalAmount) - totalItemsAmount(doc)) > Tolerance

\* Document.save() on the payment in memory, called by operation op.  The
\* hook assigns the receipt number to the document in memory before it
\* checks the total, so a rejected save leaves it there.
PaymentDoSave(doc, op) ==
    \E random \in RandomStrings :
        /\ payCall' = [op |-> op, before |-> doc, dbBefore |-> payDb]
        /\ payEverCompleted' = (payEverCompleted \/ doc.paymentStatus = "completed")
        /\ IF ~PaymentValidate(doc)
           THEN /\ pay' = doc
                /\ payDb' = payDb
                /\ payResult' = "ValidationError"
           ELSE LET hooked == PaymentReceipt(doc, now, random)
                IN IF PaymentTotalMismatch(hooked)
                   THEN /\ pay' = hooked
                        /\ payDb' = payDb
                        /\ payResult' = MismatchError
                   ELSE /\ pay' = [hooked EXCEPT !.isNew = FALSE]
                        /\ payDb' = Some([hooked EXCEPT !.isNew = FALSE])
                        /\ payResult' = "ok"

PaymentCreate ==
    \E t \in TotalAmountInputs, s \in StatusInputs, i \in ItemsInputs :
        /\ pay' = NewPayment(t, s, i, now)
        /\ payCall' = [op |-> "create"]
        /\ payResult' = "none"
        /\ payEverCompleted' = (s = "completed")
        /\ UNCHANGED <<payDb, now>>

PaymentSave == PaymentDoSave(pay, "save") /\ UNCHANGED now

\* paymentSchema.methods.markAsCompleted
PaymentMarkAsCompleted ==
    /\ PaymentDoSave([pay EXCEPT !.paymentStatus = "completed",
                                 !.paymentDate = now], "markAsCompleted")
    /\ UNCHANGED now

\* paymentSchema.methods.addPaymentItem
PaymentAddPaymentItem ==
    \E amount \in ItemAmountInputs :
        /\ Len(pay.items) < MaxItems
        /\ LET pushed == [pay EXCEPT !.items = Append(@, amount)]
           IN PaymentDoSave(
                  [pushed EXCEPT !.totalAmount = Some(totalItemsAmount(pushed))],
                  "addPaymentItem")
        /\ UNCHANGED now

PaymentTick == Tick(PaymentTimes) /\ UNCHANGED payVars

PaymentInit ==
    /\ pay = NewPayment(None, "pending", <<>>, 0)
    /\ payDb = None
    /\ payResult = "none"
    /\ payCall = NoCall
    /\ payEverCompleted = FALSE

PaymentOthers == UNCHANGED <<pqrsVars, resvVars, roleVars, userVars, srvVars, parkVars, collVars, seedVars>>

PaymentNext ==
    \/ PaymentCreate /\ PaymentOthers
    \/ PaymentSave /\ PaymentOthers
    \/ PaymentMarkAsCompleted /\ PaymentOthers
    \/ PaymentAddPaymentItem /\ PaymentOthers
    \/ PaymentTick /\ PaymentOthers

SaveOps == {"save", "markAsCompleted", "addPaymentItem"}

\* C4 as stated: a save of a Payment with items fails with 'Total amount must
\* match sum of items' whenever totalAmount differs from the items' sum by
\* more than 0.01, and persists nothing; so every persisted payment with items
\* has totalAmount within 0.01 of the sum, and addPaymentItem never fails the
\* check.
C4_MismatchRejectsSave ==
    /\ ( /\ payCall.op \in SaveOps
         /\ Len(payCall.before.items) > 0
         /\ IsSet(payCall.before.totalAmount)
         /\ Abs(Val(payCall.before.totalAmount) - SumSeq(payCall.before.items))
               > Tolerance )
       => (payResult = MismatchError /\ payDb = payCall.dbBefore)
    /\ (IsSet(payDb) /\ Len(Val(payDb).items) > 0) =>
          Abs(Val(Val(payDb).totalAmount) - SumSeq(Val(payDb).items)) <= Tolerance
    /\ payCall.op = "addPaymentItem" => payResult # MismatchError

\* C4 as amended: the same of a save whose document passes schema
\* validation, which runs before the hook; a save of a document that fails
\* validation is rejected with the validation error instead.
C4_MismatchRejectsValidSave ==
    /\ ( /\ payCall.op \in SaveOps
         /\ Len(payCall.before.items) > 0
         /\ IsSet(payCall.before.totalAmount)
         /\ Abs(Val(payCall.before.totalAmount) - SumSeq(payCall.before.items))
               > Tolerance )
       => /\ payDb = payCall.dbBefore
          /\ payResult = IF Val(payCall.before.totalAmount) >= 0
                            /\ \A i \in 1..Len(payCall.before.items) :
                                  payCall.before.items[i] >= 0
                         THEN MismatchError
                         ELSE "ValidationError"
    /\ (IsSet(payDb) /\ Len(Val(payDb).items) > 0) =>
          Abs(Val(Val(payDb).totalAmount) - SumSeq(Val(payDb).items)) <= Tolerance
    /\ payCall.op = "addPaymentItem" => payResult # MismatchError

\* A save was rejected for its total while an earlier payment with items
\* stays persisted, and the rejected total is below the items' sum.
C4_Witness ==
    /\ payCall.op = "save"
    /\ payResult = MismatchError
    /\ IsSet(payDb)
    /\ Len(Val(payDb).items) > 0
    /\ Val(pay.totalAmount) < SumSeq(pay.items)

IsDigit(c) == \E i \in 1..Len(DigitChars) : DigitChars[i] = c

\* REC-<yyyymmdd>-<6 characters>
IsReceiptForm(r) ==
    /\ Len(r) = 19
    /\ SubSeq(r, 1, 4) = <<"R", "E", "C", "-">>
    /\ \A i \in 5..12 : IsDigit(r[i])
    /\ r[13] = "-"

\* C5: a save of a completed Payment without receiptNumber gives it one of
\* the form REC-<yyyymmdd>-<6 characters>; a receiptNumber once there is kept
\* by every later save, markAsCompleted and addPaymentItem; a payment that
\* was never completed has none.
C5_ReceiptNumberForm ==
    /\ ( /\ payCall.op \in SaveOps
         /\ payResult = "ok"
         /\ payCall.before.paymentStatus = "completed"
         /\ ~IsSet(payCall.before.receiptNumber) )
       => (IsSet(pay.receiptNumber) /\ IsReceiptForm(Val(pay.receiptNumber)))
    /\ (payCall.op \in SaveOps /\ IsSet(payCall.before.receiptNumber))
       => pay.receiptNumber = payCall.before.receiptNumber
    /\ ~payEverCompleted => ~IsSet(pay.receiptNumber)

-----------------------------------------------------------------------------
(* Role                                                                    *)

SystemRoleNames == <<"super_admin", "admin", "owner">>

\* The role names a caller may use: the three system roles, another role,
\* and two names that are property names of an array.
RoleNameInputs == {"super_admin", "admin", "owner", "guard", "1", "length"}

\* Some of the property names every array inherits.
ArrayPrototypeNames == {"constructor", "map", "push", "toString"}

\* JavaScript's (key in array) for a string key: TRUE when the array has a
\* property of that name, that is an index, 'length' or an inherited one.
JsIn(key, array) ==
    \/ \E i \in 1..Len(array) : key = DigitChars[i]
    \/ key = "length"
    \/ key \in ArrayPrototypeNames

\* new Role(data): isSystem given explicitly is a modified path, the default
\* is not.
NewRole(name, isSystem) ==
    [ isNew    |-> TRUE,
      modified |-> IF IsSet(isSystem) THEN {"isSystem"} ELSE {},
      name     |-> name,
      isSystem |-> IF IsSet(isSystem) THEN Val(isSystem) ELSE FALSE ]

\* roleSchema.pre('save')
RolePreSave(doc) ==
    IF /\ "isSystem" \in doc.modified
       /\ doc.isSystem = FALSE
       /\ JsIn(doc.name, SystemRoleNames)
    THEN [doc EXCEPT !.isSystem = TRUE]
    ELSE doc

\* Document.save() on the role in memory.  name, description, level and type
\* are taken to be supplied and valid.
RoleSave ==
    LET saved == [RolePreSave(role) EXCEPT !.isNew = FALSE, !.modified = {}]
    IN /\ roleCall' = [op |-> "save", before |-> role]
       /\ role' = saved
       /\ roleDb' = Some(saved)
       /\ roleResult' = "ok"

RoleCreate ==
    \E n \in RoleNameInputs, s \in {None, Some(TRUE), Some(FALSE)} :
        /\ role' = NewRole(n, s)
        /\ roleCall' = [op |-> "create"]
        /\ roleResult' = "none"
        /\ UNCHANGED roleDb

\* A caller assigns isSystem on the role in memory; assigning the value it
\* holds does not mark the path modified.
RoleSetIsSystem ==
    \E b \in BOOLEAN :
        /\ b # role.isSystem
        /\ role' = [role EXCEPT !.isSystem = b, !.modified = @ \cup {"isSystem"}]
        /\ roleCall' = [op |-> "setIsSystem"]
        /\ roleResult' = "none"
        /\ UNCHANGED roleDb

RoleInit ==
    /\ role = NewRole("admin", Some(TRUE))
    /\ roleDb = None
    /\ roleResult = "none"
    /\ roleCall = NoCall

RoleOthers == UNCHANGED <<now, pqrsVars, resvVars, payVars, userVars, srvVars, parkVars, collVars, seedVars>>

RoleNext ==
    \/ RoleCreate /\ RoleOthers
    \/ RoleSetIsSystem /\ RoleOthers
    \/ RoleSave /\ RoleOthers

\* C6: after a save of a Role named 'super_admin', 'admin' or 'owner' whose
\* isSystem was modified to false, the stored isSystem is true.
C6_SystemRoleKeepsIsSystem ==
    ( /\ roleCall.op = "save"
      /\ roleResult = "ok"
      /\ roleCall.before.name \in {"super_admin", "admin", "owner"}
      /\ "isSystem" \in roleCall.before.modified
      /\ roleCall.before.isSystem = FALSE )
    => Val(roleDb).isSystem = TRUE

-----------------------------------------------------------------------------
(* User                                                                    *)

PasswordMinLength == 6

\* What a caller may supply: a username, and a password or none.
UsernameInputs == {"ana", "luis"}
PasswordInputs == {None, Some("secret1"), Some("hunter22"), Some("abc")}
RoleTypeInputs == {"resident", "guard"}

\* The four users of the seed script.
SeedUsers ==
    { [username |-> "admin",           password |-> "admin123", roleType |-> "admin"],
      [username |-> "maria.garcia",    password |-> "maria123", roleType |-> "owner"],
      [username |-> "luis.martinez",   password |-> "luis123",  roleType |-> "owner"],
      [username |-> "jorge.vigilante", password |-> "jorge123", roleType |-> "guard"] }

\* new User(data).  data holds the fields of the document, each absent or
\* set; __v is absent until the document is first written.
NewUser(username, password, roleType) ==
    [ isNew |-> TRUE,
      data  |-> [ username  |-> Some(username),
                  password  |-> password,
                  roleType  |-> Some(roleType),
                  guardInfo |-> None,
                  __v       |-> None ] ]

\* Schema validation of the paths modelled.
UserValidate(doc) ==
    IsSet(doc.data.password) => Len(Val(doc.data.password)) >= PasswordMinLength

\* userSchema.pre('save').  role is an ObjectId, never the string 'owner',
\* so the ownerInfo branch is not taken.
UserPreSave(doc) ==
    IF doc.data.roleType = Some("guard") /\ ~IsSet(doc.data.guardInfo)
    THEN [doc EXCEPT !.data.guardInfo = Some([isActive |-> TRUE])]
    ELSE doc

\* doc.toObject(): the fields that are set.
ToObject(doc) ==
    [f \in {g \in DOMAIN doc.data : IsSet(doc.data[g])} |-> Val(doc.data[f])]

\* A faulty variant of UserToJSON: only __v is deleted.
UserToJSONKeepingPassword(doc) ==
    LET ret == ToObject(doc)
    IN [f \in DOMAIN ret \ {"__v"} |-> ret[f]]

\* toJSON with the transform of the schema options.
UserToJSON(doc) ==
    LET ret == ToObject(doc)
    IN [f \in DOMAIN ret \ {"password", "__v"} |-> ret[f]]

\* What the users collection holds of a document: its fields, and with them
\* the password as the caller supplied it.
Stored(doc, plain) == [data |-> doc.data, plain |-> plain]

UserCreate ==
    \E n \in UsernameInputs, p \in PasswordInputs, r \in RoleTypeInputs :
        /\ user' = NewUser(n, p, r)
        /\ userCall' = [op |-> "create"]
        /\ userJson' = None
        /\ UNCHANGED <<usersDb, seedPc>>

\* Document.save() on the user in memory.  A new document is rejected with
\* a duplicate-key error when its username is taken.
UserSave ==
    /\ userJson' = None
    /\ UNCHANGED seedPc
    /\ IF ~UserValidate(user)
       THEN /\ userCall' = [op |-> "save", result |-> "ValidationError"]
            /\ UNCHANGED <<user, usersDb>>
       ELSE LET hooked == UserPreSave(user)
                saved == [hooked EXCEPT !.isNew = FALSE, !.data.__v = Some(0)]
                others == {u \in usersDb : u.data.username # user.data.username}
            IN IF user.isNew /\ others # usersDb
               THEN /\ userCall' = [op |-> "save", result |-> "DuplicateKey"]
                    /\ user' = hooked
                    /\ UNCHANGED usersDb
               ELSE /\ userCall' = [op |-> "save", result |-> "ok"]
                    /\ user' = saved
                    /\ usersDb' = others \cup {Stored(saved, user.data.password)}

UserSetPassword ==
    \E p \in PasswordInputs :
        /\ p # user.data.password
        /\ user' = [user EXCEPT !.data.password = p]
        /\ userCall' = [op |-> "setPassword"]
        /\ userJson' = None
        /\ UNCHANGED <<usersDb, seedPc>>

\* JSON serialisation of the user in memory.
UserSerialise ==
    /\ userJson' = Some(UserToJSON(user))
    /\ userCall' = [op |-> "toJSON"]
    /\ UNCHANGED <<user, usersDb, seedPc>>

\* The seed script, "Clear existing data": User.deleteMany({}).
SeedClear ==
    /\ seedPc = "idle"
    /\ seedPc' = "cleared"
    /\ usersDb' = {}
    /\ userCall' = [op |-> "seedClear"]
    /\ UNCHANGED <<user, userJson>>

\* The seed script, "6. Create Users": User.insertMany, which validates the
\* documents and writes them without running the save hooks.
SeedInsertUsers ==
    /\ seedPc = "cleared"
    /\ seedPc' = "idle"
    /\ LET docs == {NewUser(u.username, Some(u.password), u.roleType) : u \in SeedUsers}
       IN usersDb' =
             IF \A d \in docs : UserValidate(d)
             THEN usersDb \cup
                    {Stored([d EXCEPT !.data.__v = Some(0)], d.data.password) : d \in docs}
             ELSE usersDb
    /\ userCall' = [op |-> "seedUsers"]
    /\ UNCHANGED <<user, userJson>>

UserInit ==
    /\ user = NewUser("ana", None, "resident")
    /\ usersDb = {}
    /\ userJson = None
    /\ userCall = NoCall
    /\ seedPc = "idle"

UserOthers == UNCHANGED <<now, pqrsVars, resvVars, payVars, roleVars, srvVars, parkVars, collVars, seedVars>>

UserNext ==
    \/ UserCreate /\ UserOthers
    \/ UserSave /\ UserOthers
    \/ UserSetPassword /\ UserOthers
    \/ UserSerialise /\ UserOthers
    \/ SeedClear /\ UserOthers
    \/ SeedInsertUsers /\ UserOthers

\* C7: no User document is ever stored, by a save or by the seed script,
\* with its password field equal to the plaintext password supplied.
C7_NoPlaintextPasswordStored ==
    \A u \in usersDb :
        (IsSet(u.data.password) /\ IsSet(u.plain)) => u.data.password # u.plain

\* C8: the toJSON output of a User has no password and no __v field, and
\* users that differ only in their password serialise to the same JSON.
C8_ToJSONHidesPassword ==
    userCall.op = "toJSON" =>
        /\ IsSet(userJson)
        /\ "password" \notin DOMAIN Val(userJson)
        /\ "__v" \notin DOMAIN Val(userJson)
        /\ \A p \in PasswordInputs :
              UserToJSON([user EXCEPT !.data.password = p]) = Val(userJson)

\* A saved user that has a password and a version key was serialised.
C8_Witness ==
    /\ userCall.op = "toJSON"
    /\ IsSet(user.data.password)
    /\ IsSet(user.data.__v)
    /\ IsSet(user.data.guardInfo)

-----------------------------------------------------------------------------
(* The Express server                                                      *)
(* A path is the sequence of its segments and whether it ends in a slash.  *)
(* A response records its status, the error field of its body (absent when *)
(* the body has none), whether the body has a stack field, and the number  *)
(* of database operations its handler issued.                              *)

Path(segments, slash) == [segments |-> segments, slash |-> slash]

Response(status, error, stack, queries) ==
    [status |-> status, error |-> error, stack |-> stack, queries |-> queries]

\* The endpoints GET /api lists.
Endpoints ==
    { <<"api", "users">>, <<"api", "towers">>, <<"api", "apartments">>,
      <<"api", "parking">>, <<"api", "pqrs">>, <<"api", "reservations">>,
      <<"api", "notifications">>, <<"api", "surveys">>, <<"api", "payments">>,
      <<"api", "permissions">>, <<"api", "roles">>, <<"api", "modules">> }

\* The requests a client may send.
MethodInputs == {"GET", "HEAD", "POST", "PUT", "DELETE", "OPTIONS"}
PathInputs ==
    {Path(e, FALSE) : e \in Endpoints} \cup
    { Path(<<>>, TRUE), Path(<<"health">>, FALSE), Path(<<"health">>, TRUE),
      Path(<<"HEALTH">>, FALSE), Path(<<"api">>, FALSE), Path(<<"Api">>, TRUE),
      Path(<<"healthz">>, FALSE), Path(<<"api", "users", "1">>, FALSE) }
\* The body: none, JSON that parses, JSON that does not, one over the limit.
BodyInputs == {"none", "json", "badJson", "tooLarge"}
EnvInputs == {None, Some("development"), Some("production")}

LowerOf(segment) ==
    CASE segment = "HEALTH" -> "health"
      [] segment = "Api" -> "api"
      [] OTHER -> segment

\* Express matches a route path case-insensitively and lets a trailing slash
\* pass.
Matches(route, path) ==
    [i \in 1..Len(path.segments) |-> LowerOf(path.segments[i])] = route

\* A GET route also answers HEAD.
IsGet(method) == method \in {"GET", "HEAD"}

\* A faulty variant of GlobalErrorHandler: the default branch always answers 500.
GlobalErrorHandlerAlways500(error, nodeEnv) ==
    IF error.name = "ValidationError"
    THEN IF IsSet(error.errors) THEN <<Response(400, Some("Validation Error"), FALSE, 0)>>
         ELSE <<>>
    ELSE IF error.code = Some(11000)
    THEN IF IsSet(error.keyPattern) THEN <<Response(400, Some("Duplicate Entry"), FALSE, 0)>>
         ELSE <<>>
    ELSE IF error.name = "CastError"
    THEN <<Response(400, Some("Invalid ID"), FALSE, 0)>>
    ELSE <<Response(500, Some(error.message), nodeEnv = Some("development"), 0)>>

\* The global error handler: the responses it sends.  Object.values of an
\* absent errors and Object.keys of an absent keyPattern throw, and the
\* handler then sends nothing.
GlobalErrorHandler(error, nodeEnv) ==
    IF error.name = "ValidationError"
    THEN IF IsSet(error.errors) THEN <<Response(400, Some("Validation Error"), FALSE, 0)>>
         ELSE <<>>
    ELSE IF error.code = Some(11000)
    THEN IF IsSet(error.keyPattern) THEN <<Response(400, Some("Duplicate Entry"), FALSE, 0)>>
         ELSE <<>>
    ELSE IF error.name = "CastError"
    THEN <<Response(400, Some("Invalid ID"), FALSE, 0)>>
    ELSE <<Response(IF IsSet(error.status) THEN Val(error.status) ELSE 500,
                    Some(error.message), nodeEnv = Some("development"), 0)>>

ErrorObject(name, message, code, status, errors, keyPattern) ==
    [ name |-> name, message |-> message, code |-> code, status |-> status,
      errors |-> errors, keyPattern |-> keyPattern ]

\* The errors passed to the handler: Mongoose's ValidationError (it carries
\* errors) and CastError, the driver's MongoServerError (a duplicate-key
\* error carries keyPattern), plain errors and HTTP errors with a status.
ErrorInputs ==
    { ErrorObject(n, "failed", c, s,
                  IF n = "ValidationError" THEN Some({"Path is required"}) ELSE None,
                  IF c = Some(11000) THEN Some(<<"username">>) ELSE None) :
        n \in {"ValidationError", "CastError", "MongoServerError", "Error"},
        c \in {None, Some(11000), Some(121)},
        s \in {None, Some(401), Some(404), Some(503)} }

\* The error express.json passes on for a body it rejects.
BodyError(body) ==
    IF body = "badJson"
    THEN ErrorObject("SyntaxError", "Unexpected token", None, Some(400), None, None)
    ELSE ErrorObject("PayloadTooLargeError", "request entity too large", None,
                     Some(413), None, None)

\* A faulty variant of RouteHandlers: the users router is mounted and queries the
\* users collection.
RouteHandlersWithUsers(request) ==
    IF IsGet(request.method) /\ Matches(<<"health">>, request.path)
    THEN <<Response(200, None, FALSE, 0)>>
    ELSE IF IsGet(request.method) /\ Matches(<<"api">>, request.path)
    THEN <<Response(200, None, FALSE, 0)>>
    ELSE IF Matches(<<"api", "users">>, request.path)
    THEN <<Response(200, None, FALSE, 1)>>
    ELSE <<Response(404, Some("Route not found"), FALSE, 0)>>

\* The routes and the 404 handler: app.get('/health'), app.get('/api'),
\* app.use('*').
RouteHandlers(request) ==
    IF IsGet(request.method) /\ Matches(<<"health">>, request.path)
    THEN <<Response(200, None, FALSE, 0)>>
    ELSE IF IsGet(request.method) /\ Matches(<<"api">>, request.path)
    THEN <<Response(200, None, FALSE, 0)>>
    ELSE <<Response(404, Some("Route not found"), FALSE, 0)>>

\* The middleware chain in the order of app.use: cors() ends an OPTIONS
\* request with 204, express.json() passes the error of a body it rejects to
\* the error handler, the logger passes on, then the routes.
App(request, nodeEnv) ==
    IF request.method = "OPTIONS"
    THEN <<Response(204, None, FALSE, 0)>>
    ELSE IF request.body \in {"badJson", "tooLarge"}
    THEN GlobalErrorHandler(BodyError(request.body), nodeEnv)
    ELSE RouteHandlers(request)

\* The server handles a request.
ServeRequest ==
    \E m \in MethodInputs, p \in PathInputs, b \in BodyInputs :
        LET request == [method |-> m, path |-> p, body |-> b]
        IN /\ res' = App(request, env)
           /\ srvCall' = [op |-> "request", request |-> request]
           /\ UNCHANGED env

\* An error is passed to the global error handler.
HandleError ==
    \E e \in ErrorInputs :
        /\ res' = GlobalErrorHandler(e, env)
        /\ srvCall' = [op |-> "error", error |-> e]
        /\ UNCHANGED env

ServerInit ==
    /\ res = <<>>
    /\ srvCall = NoCall

ServerOthers == UNCHANGED <<now, pqrsVars, resvVars, payVars, roleVars, userVars, parkVars, collVars, seedVars>>

ServerNext ==
    \/ ServeRequest /\ ServerOthers
    \/ HandleError /\ ServerOthers

\* The error the handler answered last: the one passed to it, or the one
\* express.json raised for the request.
LastError ==
    IF srvCall.op = "error" THEN Some(srvCall.error)
    ELSE IF srvCall.op = "request" /\ srvCall.request.method # "OPTIONS"
            /\ srvCall.request.body \in {"badJson", "tooLarge"}
    THEN Some(BodyError(srvCall.request.body))
    ELSE None

IsRouted(request) ==
    /\ request.method = "GET"
    /\ \/ Matches(<<"health">>, request.path)
       \/ Matches(<<"api">>, request.path)

-----------------------------------------------------------------------------
(* Parking                                                                 *)
(* A user id is a record of its kind (an ObjectId or a number) and its     *)
(* value.  Mongoose casts a value on assignment; a value that cannot be    *)
(* cast is not assigned and is reported as a ValidationError by the next   *)
(* validation.  assignedUserId is an ObjectId path; userId of a            *)
(* usageHistory entry is a Number path and vehicle of a usageHistory entry *)
(* is a String path (its declaration has a 'type: String' key), so an      *)
(* object given for it is not castable.                                    *)

MaxUsage == 2
MaxReservations == 2
MaxMaintenance == 1

NotAvailable == "Parking space is not available"
NotOccupied == "Parking space is not occupied"
AlreadyReserved == "Parking space is already reserved for this time period"

ParkingStatuses ==
    {"available", "occupied", "reserved", "maintenance", "out_of_service"}

NoVehicle == [type |-> None, plate |-> None]
NoUserInfo == [fullName |-> None]

\* What callers may pass.
UserIdInputs == { [kind |-> "ObjectId", id |-> 1], [kind |-> "ObjectId", id |-> 2] }
UserInfoInputs == { [fullName |-> Some("Maria Garcia")] }
VehicleInfoInputs == { NoVehicle, [type |-> Some("car"), plate |-> Some("ABC-123")] }
ReasonInputs == { None, Some("moved out") }
MaintenanceStatusInputs == { None, Some("in_progress") }

\* The reservations callers may ask for: startDate, endDate and the status
\* they carry (absent: the schema default 'pending').
ParkingReservationInputs ==
    { [startDate |-> 20, endDate |-> 30, status |-> Some("approved")],
      [startDate |-> 10, endDate |-> 40, status |-> None],
      [startDate |-> 25, endDate |-> 50, status |-> None],
      [startDate |-> 60, endDate |-> 70, status |-> None] }

\* new Parking(data) with the status given; an occupied space is created as
\* the seed script creates P-001, with its user and vehicle.
NewParking(status) ==
    [ isNew            |-> TRUE,
      status           |-> status,
      assignedUserId   |-> IF status = "occupied" THEN Some(1) ELSE None,
      assignedUserInfo |-> IF status = "occupied"
                           THEN [fullName |-> Some("Maria Garcia")] ELSE NoUserInfo,
      vehicle          |-> IF status = "occupied"
                           THEN [type |-> Some("car"), plate |-> Some("ABC-123")]
                           ELSE NoVehicle,
      reservations     |-> <<>>,
      usageHistory     |-> <<>>,
      maintenance      |-> <<>> ]

\* The casts of the three typed paths.
CastObjectId(userId) == IF userId.kind = "ObjectId" THEN Some(userId.id) ELSE None
CastNumber(userId) == IF userId.kind = "Number" THEN Some(userId.id) ELSE None
CastFails(userId, vehicleInfo) ==
    [ assignedUserId |-> userId.kind # "ObjectId",
      historyUserId  |-> userId.kind # "Number",
      historyVehicle |-> vehicleInfo # NoVehicle ]

\* Schema validation of the paths modelled: the status enum and the vehicle
\* type and plate, required while the status is 'occupied'.  number and
\* details.floor are taken to be supplied and valid, and so are the entries
\* of reservations and maintenance.
ParkingValidate(doc) ==
    /\ doc.status \in ParkingStatuses
    /\ doc.status = "occupied" => (IsSet(doc.vehicle.type) /\ IsSet(doc.vehicle.plate))

\* Document.save() of doc; castFailed tells whether a value assigned since
\* the last validation could not be cast.  There is no pre('save') hook.
ParkingDoSave(doc, castFailed) ==
    IF ParkingValidate(doc) /\ ~castFailed
    THEN /\ park' = [doc EXCEPT !.isNew = FALSE]
         /\ parkDb' = Some([doc EXCEPT !.isNew = FALSE])
         /\ parkResult' = "ok"
    ELSE /\ park' = doc
         /\ parkDb' = parkDb
         /\ parkResult' = "ValidationError"

\* A method threw before it changed anything.
ParkingThrow(message) ==
    /\ parkResult' = message
    /\ UNCHANGED <<park, parkDb>>

\* What parkCall keeps of the call before the last one: whether it was an
\* assignToUser that passed its test, and the length of usageHistory before it.
Previous ==
    IF parkCall.op = "assignToUser" /\ parkResult # NotAvailable
    THEN [assigned |-> TRUE, history |-> Len(parkCall.before.usageHistory)]
    ELSE [assigned |-> FALSE, history |-> 0]

ParkingCreate ==
    \E s \in ParkingStatuses :
        /\ park' = NewParking(s)
        /\ parkStart' = s
        /\ parkCall' = [op |-> "create", before |-> park, prev |-> Previous]
        /\ parkResult' = "none"
        /\ parkDb' = None

ParkingSave ==
    /\ parkCall' = [op |-> "save", before |-> park, prev |-> Previous]
    /\ ParkingDoSave(park, FALSE)
    /\ UNCHANGED parkStart

\* A faulty variant of assignToUser: the status is not tested.
ParkingAssignToUserUntested ==
    \E userId \in UserIdInputs, userInfo \in UserInfoInputs,
       vehicleInfo \in VehicleInfoInputs :
        /\ Len(park.usageHistory) < MaxUsage
        /\ parkCall' = [op |-> "assignToUser", before |-> park, prev |-> Previous]
        /\ UNCHANGED parkStart
        /\ ParkingDoSave(
               [park EXCEPT
                  !.assignedUserId = CastObjectId(userId),
                  !.assignedUserInfo = userInfo,
                  !.vehicle = vehicleInfo,
                  !.status = "occupied",
                  !.usageHistory =
                      Append(@, [ userId         |-> CastNumber(userId),
                                  userInfo       |-> userInfo,
                                  vehicle        |-> None,
                                  assignedDate   |-> Some(now),
                                  unassignedDate |-> None,
                                  reason         |-> None,
                                  notes          |-> None ])],
               TRUE)

\* parkingSchema.methods.assignToUser
ParkingAssignToUser ==
    \E userId \in UserIdInputs, userInfo \in UserInfoInputs,
       vehicleInfo \in VehicleInfoInputs :
        /\ Len(park.usageHistory) < MaxUsage
        /\ parkCall' = [op |-> "assignToUser", before |-> park, prev |-> Previous]
        /\ UNCHANGED parkStart
        /\ IF park.status # "available"
           THEN ParkingThrow(NotAvailable)
           ELSE LET fails == CastFails(userId, vehicleInfo)
                    entry == [ userId         |-> CastNumber(userId),
                               userInfo       |-> userInfo,
                               vehicle        |-> None,
                               assignedDate   |-> Some(now),
                               unassignedDate |-> None,
                               reason         |-> None,
                               notes          |-> None ]
                    doc == [park EXCEPT
                              !.assignedUserId = IF fails.assignedUserId
                                                 THEN @ ELSE CastObjectId(userId),
                              !.assignedUserInfo = userInfo,
                              !.vehicle = vehicleInfo,
                              !.status = "occupied",
                              !.usageHistory = Append(@, entry)]
                IN ParkingDoSave(doc, fails.assignedUserId \/ fails.historyUserId
                                        \/ fails.historyVehicle)

\* parkingSchema.methods.unassignFromUser
ParkingUnassignFromUser ==
    \E reason \in ReasonInputs :
        /\ parkCall' = [op |-> "unassignFromUser", before |-> park, prev |-> Previous]
        /\ UNCHANGED parkStart
        /\ IF park.status # "occupied"
           THEN ParkingThrow(NotOccupied)
           ELSE LET n == Len(park.usageHistory)
                    history ==
                        IF n > 0 /\ ~IsSet(park.usageHistory[n].unassignedDate)
                        THEN [park.usageHistory EXCEPT
                                ![n].unassignedDate = Some(now),
                                ![n].reason = reason,
                                ![n].notes = None]
                        ELSE park.usageHistory
                    doc == [park EXCEPT
                              !.usageHistory = history,
                              !.assignedUserId = None,
                              !.assignedUserInfo = NoUserInfo,
                              !.vehicle = NoVehicle,
                              !.status = "available"]
                IN ParkingDoSave(doc, FALSE)

\* The test of createReservation: the approved reservations that hold the
\* start or the end of the period asked for.
ParkingConflicts(reservations, data) ==
    { i \in DOMAIN reservations :
        /\ reservations[i].status = "approved"
        /\ \/ ( /\ data.startDate >= reservations[i].startDate
                /\ data.startDate <= reservations[i].endDate )
           \/ ( /\ data.endDate >= reservations[i].startDate
                /\ data.endDate <= reservations[i].endDate ) }

\* The sub-document a reservation asked for becomes.
ParkingReservation(data) ==
    [ startDate |-> data.startDate,
      endDate   |-> data.endDate,
      status    |-> IF IsSet(data.status) THEN Val(data.status) ELSE "pending" ]

\* parkingSchema.methods.createReservation
ParkingCreateReservation ==
    \E data \in ParkingReservationInputs :
        /\ Len(park.reservations) < MaxReservations
        /\ parkCall' = [op |-> "createReservation", before |-> park,
                        data |-> data, prev |-> Previous]
        /\ UNCHANGED parkStart
        /\ IF ParkingConflicts(park.reservations, data) # {}
           THEN ParkingThrow(AlreadyReserved)
           ELSE ParkingDoSave(
                    [park EXCEPT !.reservations = Append(@, ParkingReservation(data))],
                    FALSE)

\* parkingSchema.methods.addMaintenanceRecord
ParkingAddMaintenanceRecord ==
    \E status \in MaintenanceStatusInputs :
        /\ Len(park.maintenance) < MaxMaintenance
        /\ parkCall' = [op |-> "addMaintenanceRecord", before |-> park,
                        prev |-> Previous]
        /\ UNCHANGED parkStart
        /\ LET entry == [status |-> IF IsSet(status) THEN Val(status) ELSE "scheduled"]
               doc == [park EXCEPT
                         !.maintenance = Append(@, entry),
                         !.status = IF status = Some("in_progress")
                                    THEN "maintenance" ELSE @]
           IN ParkingDoSave(doc, FALSE)

ParkingInit ==
    /\ park = NewParking("available")
    /\ parkDb = None
    /\ parkResult = "none"
    /\ parkCall = NoCall
    /\ parkStart = "available"

ParkingOthers ==
    UNCHANGED <<now, pqrsVars, resvVars, payVars, roleVars, userVars, srvVars, collVars, seedVars>>

ParkingNext ==
    \/ ParkingCreate /\ ParkingOthers
    \/ ParkingSave /\ ParkingOthers
    \/ ParkingAssignToUser /\ ParkingOthers
    \/ ParkingUnassignFromUser /\ ParkingOthers
    \/ ParkingCreateReservation /\ ParkingOthers
    \/ ParkingAddMaintenanceRecord /\ ParkingOthers

\* Two closed periods [startDate, endDate] have an instant in common.
PeriodsOverlap(a, b) == a.startDate <= b.endDate /\ b.startDate <= a.endDate

\* C13: createReservation called with a period that overlaps the period of
\* an approved reservation of the space throws 'Parking space is already
\* reserved for this time period' and leaves the reservations list as it
\* was; called with any other period it appends exactly the reservation
\* given.
C13_NoOverlappingReservationAdded ==
    parkCall.op = "createReservation" =>
        LET before == parkCall.before.reservations
            overlapping ==
                \E i \in DOMAIN before :
                    /\ before[i].status = "approved"
                    /\ PeriodsOverlap(before[i], parkCall.data)
        IN IF overlapping
           THEN /\ parkResult = AlreadyReserved
                /\ park.reservations = before
           ELSE /\ parkResult # AlreadyReserved
                /\ park.reservations = Append(before, ParkingReservation(parkCall.data))

C15_AssignedIffOccupied ==
    parkStart = "available" =>
        (IsSet(park.assignedUserId) <=> park.status = "occupied")

-----------------------------------------------------------------------------
(* The reservations collection                                             *)
(* Reservations are documents of one collection; the methods are called   *)
(* on a document loaded from it and write it back.  A document's _id is   *)
(* its position in the collection.  The arguments of the methods          *)
(* (approvedBy, rejectedBy, ...) are taken to be supplied; they only fill *)
(* the approval, cancellation, checkIn and checkOut sub-documents.        *)

MaxBookings == 2

FacilityTypes ==
    { "pool", "bbq_area", "meeting_room", "gym", "party_room", "playground",
      "tennis_court", "multipurpose_room" }

ActiveStatuses == {"confirmed", "in_progress"}

\* What callers may reserve: the pool or the barbecue area, from 10:00 to
\* 12:00, from 11:00 to 13:00, from 12:00 to 14:00, or an empty interval;
\* created pending (the default) or already confirmed, as the seed script
\* creates them.
BookingTypeInputs == {"pool", "bbq_area"}
BookingTimeInputs == { <<600, 720>>, <<660, 780>>, <<720, 840>>, <<600, 600>> }
BookingStatusInputs == {"pending", "confirmed"}

\* new Reservation({type, status, startTime, endTime, duration, cost, ...})
NewBooking(type, status, start, end) ==
    [ NewReservation(Some(start), Some(end), Some(end - start),
                     Cost(Some(50000), Some(0), Some(0), Some(0), Some(0), Some(50000)))
      EXCEPT !.status = status ] @@ [type |-> type]

\* Schema validation: the enum of type besides the paths of
\* ReservationValidate.  reservationDate is taken to be supplied and not in
\* the past.
BookingValidate(doc) ==
    /\ Checked(doc, "type") => doc.type \in FacilityTypes
    /\ ReservationValidate(doc)

\* reservationSchema.statics.findConflicting: the _ids the query returns.
FindConflicting(type, startTime, endTime, excludeId) ==
    { i \in DOMAIN reservationsDb :
        /\ reservationsDb[i].type = type
        /\ reservationsDb[i].status \in ActiveStatuses
        /\ Val(reservationsDb[i].startTime) < endTime
        /\ Val(reservationsDb[i].endTime) > startTime
        /\ IsSet(excludeId) => i # Val(excludeId) }

\* new Reservation(data).save()
BookingCreate ==
    \E type \in BookingTypeInputs, status \in BookingStatusInputs,
       t \in BookingTimeInputs :
        LET doc == NewBooking(type, status, t[1], t[2])
        IN /\ Len(reservationsDb) < MaxBookings
           /\ collCall' = [op |-> "create", id |-> Len(reservationsDb) + 1]
           /\ IF BookingValidate(doc)
              THEN /\ reservationsDb' =
                          Append(reservationsDb,
                                 [ReservationPreSave(doc) EXCEPT
                                     !.isNew = FALSE, !.modified = {}])
                   /\ collResult' = "ok"
              ELSE /\ reservationsDb' = reservationsDb
                   /\ collResult' = "ValidationError"

\* A method of the document with _id i that assigns status and saves.
BookingSetStatus(i, status, op) ==
    LET doc == [reservationsDb[i] EXCEPT
                  !.status = status,
                  !.modified = IF reservationsDb[i].status = status
                               THEN @ ELSE @ \cup {"status"}]
    IN /\ collCall' = [op |-> op, id |-> i]
       /\ IF BookingValidate(doc)
          THEN /\ reservationsDb' =
                      [reservationsDb EXCEPT
                          ![i] = [ReservationPreSave(doc) EXCEPT
                                     !.isNew = FALSE, !.modified = {}]]
               /\ collResult' = "ok"
          ELSE /\ reservationsDb' = reservationsDb
               /\ collResult' = "ValidationError"

\* reservationSchema.methods.approve
BookingApprove == \E i \in DOMAIN reservationsDb : BookingSetStatus(i, "confirmed", "approve")

\* reservationSchema.methods.reject
BookingReject == \E i \in DOMAIN reservationsDb : BookingSetStatus(i, "cancelled", "reject")

\* reservationSchema.methods.cancel
BookingCancel == \E i \in DOMAIN reservationsDb : BookingSetStatus(i, "cancelled", "cancel")

\* reservationSchema.methods.performCheckIn
BookingCheckIn ==
    \E i \in DOMAIN reservationsDb : BookingSetStatus(i, "in_progress", "performCheckIn")

\* reservationSchema.methods.performCheckOut
BookingCheckOut ==
    \E i \in DOMAIN reservationsDb : BookingSetStatus(i, "completed", "performCheckOut")

CollectionInit ==
    /\ reservationsDb = <<>>
    /\ collResult = "none"
    /\ collCall = NoCall

CollectionOthers ==
    UNCHANGED <<now, pqrsVars, resvVars, payVars, roleVars, userVars, srvVars,
                parkVars, seedVars>>

CollectionNext ==
    \/ BookingCreate /\ CollectionOthers
    \/ BookingApprove /\ CollectionOthers
    \/ BookingReject /\ CollectionOthers
    \/ BookingCancel /\ CollectionOthers
    \/ BookingCheckIn /\ CollectionOthers
    \/ BookingCheckOut /\ CollectionOthers

\* C12: whatever reservations were created and whatever methods were called
\* on them, no reservation with status 'confirmed' or 'in_progress' has a
\* conflicting one: another reservation of the same type, confirmed or in
\* progress, whose interval overlaps its own.
C12_NoConflictingActiveReservations ==
    \A i \in DOMAIN reservationsDb :
        reservationsDb[i].status \in ActiveStatuses
        => FindConflicting(reservationsDb[i].type,
                           Val(reservationsDb[i].startTime),
                           Val(reservationsDb[i].endTime), Some(i)) = {}

-----------------------------------------------------------------------------
(* The seed script                                                          *)
(* A document is modelled by its key (the unique field of its collection,  *)
(* or its title), the sizes of its embedded arrays and, for a reservation, *)
(* its reservationDate.  Times are minutes since SeedEpoch, dates are days *)
(* since SeedEpoch; the process runs in UTC.                                *)

MaxRuns == 2

\* The calendar date of the epoch of a seed run.
SeedEpoch == [year |-> 2025, month |-> 6, day |-> 25]

RECURSIVE DaysBetween(_, _)
DaysBetween(from, to) == IF from = to THEN 0 ELSE 1 + DaysBetween(NextDay(from), to)

\* new Date('2025-mm-dd') as a day number.
SeedDate(month, day) == DaysBetween(SeedEpoch, [year |-> 2025, month |-> month, day |-> day])

MinutesPerDay == 24 * MinutesPerHour

\* Instants the clock of a seed run can show: 25 June 00:00, 26 June 10:00,
\* 27 June 00:05.
SeedTimes == {0, MinutesPerDay + 600, 2 * MinutesPerDay + 5}

Doc(key) == [key |-> key, parts |-> <<>>, date |-> None]
DocWith(key, parts) == [key |-> key, parts |-> parts, date |-> None]
DocOn(key, date) == [key |-> key, parts |-> <<>>, date |-> Some(date)]

\* The collections whose key has a unique index.
UniqueKeyed ==
    { "userstatuses", "paymentstatuses", "permissions", "modules", "roles",
      "users", "towers", "parkings" }

\* The inserts of the script, in its order: the collection and the
\* documents of each insertMany or create.
SeedPlan ==
    << [coll |-> "userstatuses",
        docs |-> << Doc("active"), Doc("inactive"), Doc("suspended"),
                    Doc("pending"), Doc("blocked") >>],
       [coll |-> "paymentstatuses",
        docs |-> << Doc("pending"), Doc("completed"), Doc("failed"),
                    Doc("cancelled") >>],
       [coll |-> "permissions",
        docs |-> << Doc("create_user"), Doc("read_user"), Doc("update_user"),
                    Doc("delete_user"), Doc("manage_apartment"),
                    Doc("manage_parking"), Doc("create_pqrs"), Doc("read_pqrs"),
                    Doc("approve_pqrs"), Doc("manage_payment"),
                    Doc("manage_system") >>],
       [coll |-> "modules",
        docs |-> << Doc("Dashboard"), Doc("Usuarios"), Doc("Apartamentos"),
                    Doc("Parqueaderos"), Doc("PQRS"), Doc("Pagos") >>],
       [coll |-> "roles", docs |-> << Doc("Super Administrador") >>],
       [coll |-> "roles", docs |-> << Doc("Propietario") >>],
       [coll |-> "roles", docs |-> << Doc("Vigilante") >>],
       [coll |-> "users",
        docs |-> << Doc("admin"), Doc("maria.garcia"), Doc("luis.martinez"),
                    Doc("jorge.vigilante") >>],
       [coll |-> "towers",
        docs |-> << DocWith("Torre A", <<3>>), DocWith("Torre B", <<2>>) >>],
       [coll |-> "parkings",
        docs |-> << Doc("P-001"), Doc("P-002"), Doc("P-003") >>],
       [coll |-> "pqrs",
        docs |-> << Doc("Ruido excesivo en horas nocturnas"),
                    Doc("Solicitud de reparación de equipos de gimnasio") >>],
       [coll |-> "payments",
        docs |-> << Doc("ADMIN-MAR-2024-301"), Doc("ADMIN-MAR-2024-102") >>],
       [coll |-> "notifications",
        docs |-> << Doc("Mantenimiento preventivo de ascensores"),
                    Doc("Recordatorio: Fecha límite de pago") >>],
       [coll |-> "reservations",
        docs |-> << DocOn("Fiesta de cumpleaños infantil", SeedDate(6, 28)),
                    DocOn("Reunión familiar de fin de mes", SeedDate(6, 30)),
                    DocOn("Reunión de propietarios Torre B", SeedDate(6, 26)),
                    DocOn("Rutina matutina de ejercicio", SeedDate(7, 2)) >>],
       [coll |-> "surveys",
        docs |-> << DocWith("satisfaccion_servicios_2025", <<5, 2>>) >>] >>

\* The 13 collections the script clears.
CollectionNames == { SeedPlan[i].coll : i \in DOMAIN SeedPlan }

RECURSIVE SeededUpTo(_)
\* What the first n inserts put into empty collections.
SeededUpTo(n) ==
    IF n = 0 THEN [c \in CollectionNames |-> <<>>]
    ELSE [SeededUpTo(n - 1) EXCEPT ![SeedPlan[n].coll] = @ \o SeedPlan[n].docs]

SeededContents == SeededUpTo(Len(SeedPlan))

EmptyContents == [c \in CollectionNames |-> <<>>]

\* What the collections may hold before a run: nothing; an old document in
\* every collection, an 'admin' among the users and an earlier copy of a
\* seeded PQRS; everything an earlier run left.
PriorInputs ==
    { EmptyContents,
      [c \in CollectionNames |->
          IF c = "users" THEN << Doc("admin") >>
          ELSE IF c = "pqrs" THEN << Doc("Ruido excesivo en horas nocturnas"), Doc("old") >>
          ELSE << Doc("old") >>],
      SeededContents }

\* A faulty variant of the clearing: the PQRS collection is left as it was.
FullSeedClearKeepingPQRS(contents) ==
    [c \in CollectionNames |-> IF c = "pqrs" THEN contents[c] ELSE <<>>]

\* "Clear existing data": deleteMany({}) on each of the 13 collections.
FullSeedClear(contents) == [c \in CollectionNames |-> <<>>]

\* new Date().setHours(0, 0, 0, 0) at instant t.
StartOfDay(t) == (t \div MinutesPerDay) * MinutesPerDay

\* Schema validation of a seeded document at instant t.  What depends on
\* the run is the reservationDate validator, "can't reserve in the past",
\* and for the users the validators of UserValidate; the other seeded
\* values satisfy their validators.
SeedDocValid(coll, doc, t) ==
    /\ coll = "reservations" => Val(doc.date) * MinutesPerDay >= StartOfDay(t)
    /\ coll = "users" =>
          \E u \in SeedUsers :
              /\ u.username = doc.key
              /\ UserValidate(NewUser(u.username, Some(u.password), u.roleType))

RECURSIVE InsertOrdered(_, _, _)
\* An ordered insert: the documents are written one by one and the first
\* duplicate key stops it, the earlier ones staying.
InsertOrdered(contents, docs, unique) ==
    IF docs = <<>> THEN [contents |-> contents, ok |-> TRUE]
    ELSE IF unique /\ \E i \in DOMAIN contents : contents[i].key = Head(docs).key
    THEN [contents |-> contents, ok |-> FALSE]
    ELSE InsertOrdered(Append(contents, Head(docs)), Tail(docs), unique)

\* Model.insertMany and Model.create: every document is validated first and
\* nothing is written when one is invalid.
InsertMany(contents, coll, docs, t) ==
    IF \A i \in DOMAIN docs : SeedDocValid(coll, docs[i], t)
    THEN InsertOrdered(contents, docs, coll \in UniqueKeyed)
    ELSE [contents |-> contents, ok |-> FALSE]

\* A run starts: the connection, then the clearing.
FullSeedStart ==
    /\ seedStep.pc \in {"idle", "done", "failed"}
    /\ seedRuns < MaxRuns
    /\ seedRuns' = seedRuns + 1
    /\ seedPrior' = colls
    /\ colls' = FullSeedClear(colls)
    /\ seedStep' = [pc |-> "inserting", next |-> 1]
    /\ UNCHANGED now

\* The next insert of the run; an error ends the run (the catch rethrows
\* and the process exits with 1).
FullSeedInsert ==
    /\ seedStep.pc = "inserting"
    /\ seedStep.next <= Len(SeedPlan)
    /\ LET step == SeedPlan[seedStep.next]
           r == InsertMany(colls[step.coll], step.coll, step.docs, now)
       IN /\ colls' = [colls EXCEPT ![step.coll] = r.contents]
          /\ seedStep' = IF r.ok THEN [seedStep EXCEPT !.next = @ + 1]
                         ELSE [seedStep EXCEPT !.pc = "failed"]
    /\ UNCHANGED <<now, seedRuns, seedPrior>>

\* The summary is printed and the process exits with 0.
FullSeedFinish ==
    /\ seedStep.pc = "inserting"
    /\ seedStep.next = Len(SeedPlan) + 1
    /\ seedStep' = [seedStep EXCEPT !.pc = "done"]
    /\ UNCHANGED <<now, colls, seedRuns, seedPrior>>

FullSeedTick == Tick(SeedTimes) /\ UNCHANGED seedVars

FullSeedInit ==
    /\ colls = EmptyContents
    /\ seedStep = [pc |-> "idle", next |-> 1]
    /\ seedRuns = 0
    /\ seedPrior = EmptyContents

FullSeedOthers ==
    UNCHANGED <<pqrsVars, resvVars, payVars, roleVars, userVars, srvVars,
                parkVars, collVars>>

FullSeedNext ==
    \/ FullSeedStart /\ FullSeedOthers
    \/ FullSeedInsert /\ FullSeedOthers
    \/ FullSeedFinish /\ FullSeedOthers
    \/ FullSeedTick /\ FullSeedOthers

\* The sum of the i-th array size over the documents of a collection.
RECURSIVE SumParts(_, _)
SumParts(docs, i) ==
    IF docs = <<>> THEN 0 ELSE Head(docs).parts[i] + SumParts(Tail(docs), i)

Keys(docs) == { docs[i].key : i \in DOMAIN docs }

\* C11: when a run of the seed script has succeeded, the collections hold
\* exactly the seeded documents, whatever they held when the run started
\* and however many runs came before: 4 users, 2 towers with 5 apartments,
\* 3 parking spaces, 2 PQRS, 2 payments, 2 notifications, 4 reservations,
\* 1 survey with 5 questions and 2 responses, no key twice in a collection;
\* so a second run leaves what the first one left.
C11_SeedLeavesExactlySeededDocuments ==
    seedStep.pc = "done"
    => /\ colls = SeededContents
       /\ Len(colls["users"]) = 4
       /\ Len(colls["towers"]) = 2
       /\ SumParts(colls["towers"], 1) = 5
       /\ Len(colls["parkings"]) = 3
       /\ Len(colls["pqrs"]) = 2
       /\ Len(colls["payments"]) = 2
       /\ Len(colls["notifications"]) = 2
       /\ Len(colls["reservations"]) = 4
       /\ Len(colls["surveys"]) = 1
       /\ colls["surveys"][1].parts = <<5, 2>>
       /\ Cardinality(CollectionNames) = 13
       /\ \A c \in CollectionNames : Cardinality(Keys(colls[c])) = Len(colls[c])

\* A second run has succeeded on collections that held what the first run
\* left.
C11_Witness ==
    /\ seedStep.pc = "done"
    /\ seedRuns = 2
    /\ seedPrior = SeededContents
    /\ colls = SeededContents

-----------------------------------------------------------------------------
vars == <<now, pqrsVars, resvVars, payVars, roleVars, userVars, srvVars, parkVars,
          collVars, seedVars>>

\* The state after construction: the clock at the epoch, a document of each
\* model in memory, nothing persisted, nothing handled.  NODE_ENV is whatever
\* the process was started with; only the server reads it.
InitDocuments ==
    /\ now = 0
    /\ PQRSInit
    /\ ReservationInit
    /\ PaymentInit
    /\ RoleInit
    /\ UserInit
    /\ ServerInit
    /\ ParkingInit
    /\ CollectionInit
    /\ FullSeedInit

Init == InitDocuments /\ env = None

\* The same with a PQRS that was given its sla dates.
InitTracking ==
    /\ now = 0
    /\ TrackingInit
    /\ ReservationInit
    /\ PaymentInit
    /\ RoleInit
    /\ UserInit
    /\ ServerInit
    /\ ParkingInit
    /\ CollectionInit
    /\ FullSeedInit
    /\ env = None

\* The clock at the epoch of a seed run, the collections holding what was
\* there before.
InitSeed ==
    /\ now = 0
    /\ PQRSInit
    /\ ReservationInit
    /\ PaymentInit
    /\ RoleInit
    /\ UserInit
    /\ ServerInit
    /\ ParkingInit
    /\ CollectionInit
    /\ colls \in PriorInputs
    /\ seedStep = [pc |-> "idle", next |-> 1]
    /\ seedRuns = 0
    /\ seedPrior = colls
    /\ env = None

InitServer == InitDocuments /\ env \in EnvInputs

SpecPQRS == Init /\ [][PQRSNext]_vars

SpecReservation == Init /\ [][ReservationNext]_vars

SpecPayment == Init /\ [][PaymentNext]_vars

SpecRole == Init /\ [][RoleNext]_vars

SpecUser == Init /\ [][UserNext]_vars

SpecServer == InitServer /\ [][ServerNext]_vars

SpecParking == Init /\ [][ParkingNext]_vars

SpecTracking == InitTracking /\ [][TrackingNext]_vars

SpecCollection == Init /\ [][CollectionNext]_vars

SpecSeed == InitSeed /\ [][FullSeedNext]_vars

====
